---------------------------- MODULE Spec2Model ----------------------------
(***************************************************************************)
(* A model of src/src/SouffleInterface.h: the object-oriented interface of *)
(* compiled Souffle programs.                                              *)
(*                                                                         *)
(*   - SouffleProgram: the relation registry (relationMap and the four     *)
(*     relation vectors), getRelation and the purge operations;            *)
(*   - tuple: the row buffer with its cursor pos, its constructors, the    *)
(*     typed << and >> operators and operator[];                           *)
(*   - SouffleProgram::insert / contains: the std::tuple wrappers;         *)
(*   - Relation::getSignature;                                             *)
(*   - Relation::iterator: the handle that owns a cloneable cursor         *)
(*     (iterator_base);                                                    *)
(*   - ProgramFactory: the name -> factory registry and its construction   *)
(*     on first use.                                                       *)
(*                                                                         *)
(* The parts share no state in the source, so each has its own             *)
(* specification over its own variables (SpecProgram, SpecTuple,           *)
(* SpecRoundTrip, SpecWrapper, SpecSignature, SpecIter, SpecScan,          *)
(* SpecFactory); a specification leaves the other parts' variables         *)
(* untouched.                                                              *)
(*                                                                         *)
(* assert() is modelled as compiled in: a failed assertion ends the        *)
(* process (status = "aborted") before the statement after it runs.        *)
(*                                                                         *)
(* The pure virtual members of Relation and iterator_base, and the         *)
(* SymbolTable, are implemented outside SouffleInterface.h; they are       *)
(* modelled from their documented contract and marked as such.             *)
(***************************************************************************)
EXTENDS Integers, Sequences, FiniteSets, TLC

VARIABLES
    status,             \* "running", or "aborted" after a failed assert
    \* ---- SouffleProgram
    relationMap,        \* std::map<std::string, Relation*>
    inputRelations,     \* std::vector<Relation*>
    outputRelations,    \* std::vector<Relation*>
    internalRelations,  \* std::vector<Relation*>
    allRelations,       \* std::vector<Relation*>
    rows,               \* the rows each concrete relation stores
    regs,               \* history: the addRelation calls made, in order
    pcall,              \* history: the last SouffleProgram call and its result
    \* ---- tuple
    relation,           \* the attribute kinds of the relation the tuple is bound to
    array,              \* std::vector<RamDomain> array
    pos,                \* size_t pos
    symtab,             \* the relation's SymbolTable: the interned texts, id = index
    tcall,              \* history: the last tuple call, its argument and result
    ctor,               \* history: the constructor that made the tuple
    input,              \* round trip: the values the caller writes, in column order
    rlog,               \* round trip: the values read back after the rewind
    phase,              \* round trip: "write", then "read" ("none": no round trip)
    \* ---- SouffleProgram::insert / contains (the std::tuple wrappers)
    relRows,            \* the tuples the concrete relation stores
    inserted,           \* history: the rows passed to insert() that were stored
    acall,              \* history: the last wrapper call, its row and result
    \* ---- Relation::getSignature
    attrTypes,          \* the strings getAttrType(0..arity-1) returns, as characters
    signature,          \* the string the last getSignature() returned ("": none)
    \* ---- Relation::iterator
    itRows,             \* the rows of the iterated relation, in its scan order
    heap,               \* the iterator_base objects allocated by new
    iter,               \* iterator_base* iter of each handle (0: nullptr)
    alive,              \* the handles that are constructed and not yet destroyed
    uaf,                \* history: a deleted iterator_base was used
    icall,              \* history: the last iterator call
    \* ---- the scan loop
    pc,                 \* the loop's position
    visited,            \* the rows the loop dereferenced, in order
    derefAtEnd,         \* history: the loop dereferenced a cursor at the end
    \* ---- ProgramFactory
    factoryReg,         \* static std::map<std::string, ProgramFactory*> factoryReg
    regInit,            \* the function-local static factoryReg is constructed
    uninitRead,         \* history: the registry was used before its construction
    constructed,        \* history: the factories constructed, with their names
    fcall               \* history: the last ProgramFactory call and its result

progVars == <<relationMap, inputRelations, outputRelations, internalRelations,
              allRelations, rows, regs, pcall>>
tupVars == <<relation, array, pos, symtab, tcall, ctor, input, rlog, phase>>
adVars == <<relRows, inserted, acall>>
sigVars == <<attrTypes, signature>>
iterVars == <<itRows, heap, iter, alive, uaf, icall>>
scanVars == <<pc, visited, derefAtEnd>>
factVars == <<factoryReg, regInit, uninitRead, constructed, fcall>>
vars == <<status, progVars, tupVars, adVars, sigVars, iterVars, scanVars, factVars>>

NULL == "nullptr"

Range(s) == {s[k] : k \in 1..Len(s)}

(***************************************************************************)
(*                             SouffleProgram                              *)
(***************************************************************************)

\* Bounds of the registry model.
MaxRels == 2
MaxRow == 1

\* The relation names and the Relation objects a generated program may pass
\* to addRelation.
Names == {"edge", "path"}
Rels == {"rel_1", "rel_2"}
RowVals == 1..MaxRow

NoCall == [op |-> "none", name |-> NULL, rel |-> NULL, result |-> NULL,
           pre |-> [r \in Rels |-> {}]]

\* relationMap[name] = rel
MapPut(m, name, rel) ==
    [n \in (DOMAIN m) \cup {name} |-> IF n = name THEN rel ELSE m[n]]

\* Relation::size()
size(r) == Cardinality(rows[r])

\* Relation::purge() applied to every relation of a vector
purgeAll(list) == [r \in Rels |-> IF r \in Range(list) THEN {} ELSE rows[r]]

InitProgram ==
    /\ relationMap = [n \in {} |-> NULL]
    /\ inputRelations = <<>>
    /\ outputRelations = <<>>
    /\ internalRelations = <<>>
    /\ allRelations = <<>>
    /\ rows = [r \in Rels |-> {}]
    /\ regs = <<>>
    /\ pcall = NoCall

\* The variant of addRelation that its doc comment describes: "if the
\* relation is an input relation, it will be added to inputRelations, else if
\* the relation is an output relation, it will be added to outputRelations,
\* otherwise will add to internalRelations".
addRelationElseIf(name, rel, isInput, isOutput) ==
    /\ Len(allRelations) < MaxRels
    /\ relationMap' = MapPut(relationMap, name, rel)
    /\ allRelations' = Append(allRelations, rel)
    /\ inputRelations' = IF isInput THEN Append(inputRelations, rel)
                         ELSE inputRelations
    /\ outputRelations' = IF ~isInput /\ isOutput THEN Append(outputRelations, rel)
                          ELSE outputRelations
    /\ internalRelations' = IF ~isInput /\ ~isOutput
                            THEN Append(internalRelations, rel)
                            ELSE internalRelations
    /\ regs' = Append(regs, [name |-> name, rel |-> rel,
                             isInput |-> isInput, isOutput |-> isOutput])
    /\ pcall' = [NoCall EXCEPT !.op = "addRelation", !.name = name, !.rel = rel]
    /\ UNCHANGED rows

\* SouffleProgram::addRelation
addRelation(name, rel, isInput, isOutput) ==
    /\ Len(allRelations) < MaxRels
    /\ relationMap' = MapPut(relationMap, name, rel)
    /\ allRelations' = Append(allRelations, rel)
    /\ inputRelations' = IF isInput THEN Append(inputRelations, rel)
                         ELSE inputRelations
    /\ outputRelations' = IF isOutput THEN Append(outputRelations, rel)
                          ELSE outputRelations
    /\ internalRelations' = IF ~isInput /\ ~isOutput
                            THEN Append(internalRelations, rel)
                            ELSE internalRelations
    /\ regs' = Append(regs, [name |-> name, rel |-> rel,
                             isInput |-> isInput, isOutput |-> isOutput])
    /\ pcall' = [NoCall EXCEPT !.op = "addRelation", !.name = name, !.rel = rel]
    /\ UNCHANGED rows

\* A lookup through operator[] instead of find(): an unknown name is inserted
\* with a null handle.
getRelationSubscript(name) ==
    /\ relationMap' = IF name \in DOMAIN relationMap THEN relationMap
                      ELSE MapPut(relationMap, name, NULL)
    /\ pcall' = [NoCall EXCEPT !.op = "getRelation", !.name = name,
                               !.result = relationMap'[name]]
    /\ UNCHANGED <<inputRelations, outputRelations, internalRelations,
                   allRelations, rows, regs>>

\* SouffleProgram::getRelation
getRelation(name) ==
    /\ pcall' = [NoCall EXCEPT !.op = "getRelation", !.name = name,
                               !.result = IF name \in DOMAIN relationMap
                                          THEN relationMap[name] ELSE NULL]
    /\ UNCHANGED <<relationMap, inputRelations, outputRelations,
                   internalRelations, allRelations, rows, regs>>

\* Relation::insert on a registered relation (the concrete relation is a set
\* of rows)
insertRow(rel, row) ==
    /\ rel \in Range(allRelations)
    /\ rows' = [rows EXCEPT ![rel] = @ \cup {row}]
    /\ pcall' = [NoCall EXCEPT !.op = "insert", !.rel = rel, !.pre = rows]
    /\ UNCHANGED <<relationMap, inputRelations, outputRelations,
                   internalRelations, allRelations, regs>>

\* A purge that walks the wrong vector.
purgeOutputRelationsWrongList ==
    /\ rows' = purgeAll(allRelations)
    /\ pcall' = [NoCall EXCEPT !.op = "purgeOutputRelations", !.pre = rows]
    /\ UNCHANGED <<relationMap, inputRelations, outputRelations,
                   internalRelations, allRelations, regs>>

\* SouffleProgram::purgeOutputRelations
purgeOutputRelations ==
    /\ rows' = purgeAll(outputRelations)
    /\ pcall' = [NoCall EXCEPT !.op = "purgeOutputRelations", !.pre = rows]
    /\ UNCHANGED <<relationMap, inputRelations, outputRelations,
                   internalRelations, allRelations, regs>>

\* SouffleProgram::purgeInputRelations
purgeInputRelations ==
    /\ rows' = purgeAll(inputRelations)
    /\ pcall' = [NoCall EXCEPT !.op = "purgeInputRelations", !.pre = rows]
    /\ UNCHANGED <<relationMap, inputRelations, outputRelations,
                   internalRelations, allRelations, regs>>

\* SouffleProgram::purgeInternalRelations
purgeInternalRelations ==
    /\ rows' = purgeAll(internalRelations)
    /\ pcall' = [NoCall EXCEPT !.op = "purgeInternalRelations", !.pre = rows]
    /\ UNCHANGED <<relationMap, inputRelations, outputRelations,
                   internalRelations, allRelations, regs>>


\* A call on the SouffleProgram object; the tuple is left alone.
Program(call) ==
    /\ status = "running"
    /\ call
    /\ UNCHANGED <<status, tupVars, adVars, sigVars, iterVars, scanVars, factVars>>

NextProgram ==
    \/ \E name \in Names, rel \in Rels, isInput \in BOOLEAN, isOutput \in BOOLEAN :
          Program(addRelation(name, rel, isInput, isOutput))
    \/ \E name \in Names : Program(getRelation(name))
    \/ \E rel \in Rels, row \in RowVals : Program(insertRow(rel, row))
    \/ Program(purgeOutputRelations)
    \/ Program(purgeInputRelations)
    \/ Program(purgeInternalRelations)

\* ---- C1

\* The addRelation calls that registered rel.
RegsOf(rel) == {k \in 1..Len(regs) : regs[k].rel = rel}

\* The number of times a vector holds rel.
Count(list, rel) == Cardinality({k \in 1..Len(list) : list[k] = rel})

LastRegistered(name) ==
    LET ks == {k \in 1..Len(regs) : regs[k].name = name}
    IN  IF ks = {} THEN NULL
        ELSE regs[CHOOSE k \in ks : \A j \in ks : j <= k].rel

\* C3: getRelation(name) returns the handle registered under name, or the
\* null handle when no addRelation used that name, and changes neither the
\* name map nor any relation list.
C3_GetRelation ==
    [][pcall'.op = "getRelation" =>
          /\ pcall'.result = LastRegistered(pcall'.name)
          /\ relationMap' = relationMap
          /\ DOMAIN relationMap' = {regs[k].name : k \in 1..Len(regs)}
          /\ UNCHANGED <<inputRelations, outputRelations, internalRelations,
                         allRelations, rows, status>>]_vars

\* A lookup of a registered name and a lookup of an unknown name.
C3_WitnessFound ==
    /\ pcall.op = "getRelation"
    /\ pcall.result # NULL
    /\ \E n \in Names : n \notin DOMAIN relationMap
C3_Witness ==
    /\ pcall.op = "getRelation"
    /\ pcall.result = NULL
    /\ pcall.name \notin DOMAIN relationMap
    /\ DOMAIN relationMap # {}

\* ---- C18

\* The name map and the relation vectors agree: the handle every addRelation
\* call put into allRelations, and into the input, output and internal
\* vectors, is the handle getRelation returns for the name of that call, and
\* allRelations has one entry per registered name.
MapAgrees ==
    /\ Len(allRelations) = Len(regs)
    /\ \A k \in 1..Len(regs) :
           /\ allRelations[k] = regs[k].rel
           /\ regs[k].name \in DOMAIN relationMap
           /\ relationMap[regs[k].name] = allRelations[k]
    /\ \A rel \in Range(inputRelations) \cup Range(outputRelations)
                   \cup Range(internalRelations) :
           \E k \in 1..Len(regs) :
               regs[k].rel = rel /\ relationMap[regs[k].name] = rel
    /\ Len(allRelations) = Cardinality(DOMAIN relationMap)

\* C18 as stated: after any sequence of addRelation calls, two calls with the
\* same name and different handles included, the name map and the
\* all-relations collection agree.
C18_Agreement == MapAgrees

\* The same for the programs that register every name once.
C18_AgreementUniqueNames ==
    (\A j, k \in 1..Len(regs) : j # k => regs[j].name # regs[k].name)
        => MapAgrees

\* Two relations registered under two names.
C18_AgreementReached ==
    /\ Len(regs) = 2
    /\ regs[1].name # regs[2].name
    /\ regs[1].rel # regs[2].rel
    /\ Cardinality(DOMAIN relationMap) = 2


(***************************************************************************)
(*                                  tuple                                  *)
(***************************************************************************)

\* Bound of the tuple model: the largest arity of a relation.
MaxArity == 2

\* The first character of an attribute type descriptor ("i:number",
\* "s:symbol", ...): signed integer, unsigned integer, record numeric, symbol.
AttrKinds == {"i", "u", "r", "s"}
NumericKinds == {"i", "u", "r"}

\* The texts and numbers a caller passes to the typed operators.
Texts == {"a", "b"}
Numbers == {1, 2}

\* The relations a tuple may be bound to, and the symbol tables they may
\* already hold when the tuple is constructed.
Schemas == UNION {[1..n -> AttrKinds] : n \in 0..MaxArity}
SymTabs == {<<>>, <<"b">>, <<"b", "a">>}

\* Relation::getArity
getArity == Len(relation)

\* *relation.getAttrType(p): the kind character of column p
getAttrType(p) == relation[p + 1]

\* SymbolTable::lookup: the id of str, interning it when it is new
HasSymbol(st, str) == \E k \in 1..Len(st) : st[k] = str
lookup(st, str) ==
    IF HasSymbol(st, str) THEN (CHOOSE k \in 1..Len(st) : st[k] = str) - 1
    ELSE Len(st)
intern(st, str) == IF HasSymbol(st, str) THEN st ELSE Append(st, str)

\* SymbolTable::resolve: the text of an id
KnownId(st, id) == id \in 0..(Len(st) - 1)
resolve(st, id) == st[id + 1]

\* A value passed to or returned by a typed operator: a text (std::string)
\* or a number (RamDomain).
TextVal(str) == [text |-> str, num |-> 0]
NumVal(number) == [text |-> NULL, num |-> number]
NoVal == [text |-> NULL, num |-> 0]
IsText(v) == v.text # NULL

NoTupleCall == [op |-> "none", arg |-> NoVal, result |-> NoVal, accepted |-> TRUE]

\* tuple::tuple(const Relation* r): array(r->getArity()), pos(0)
InitTuple ==
    /\ relation \in Schemas
    /\ symtab \in SymTabs
    /\ array = [k \in 1..Len(relation) |-> 0]
    /\ pos = 0
    /\ tcall = NoTupleCall
    /\ ctor = "relation"

\* tuple::size
tupleSize == Len(array)

\* operator<<(const std::string&) without its attribute type assertion.
shlTextUnchecked(str) ==
    IF pos < tupleSize
    THEN /\ array' = [array EXCEPT ![pos + 1] = lookup(symtab, str)]
         /\ pos' = pos + 1
         /\ symtab' = intern(symtab, str)
         /\ tcall' = [NoTupleCall EXCEPT !.op = "shlText", !.arg = TextVal(str)]
         /\ UNCHANGED status
    ELSE /\ status' = "aborted"
         /\ tcall' = [NoTupleCall EXCEPT !.op = "shlText", !.arg = TextVal(str),
                                         !.accepted = FALSE]
         /\ UNCHANGED <<array, pos, symtab>>

\* tuple::operator<<(const std::string&)
shlText(str) ==
    IF pos < tupleSize /\ getAttrType(pos) = "s"
    THEN /\ array' = [array EXCEPT ![pos + 1] = lookup(symtab, str)]
         /\ pos' = pos + 1
         /\ symtab' = intern(symtab, str)
         /\ tcall' = [NoTupleCall EXCEPT !.op = "shlText", !.arg = TextVal(str)]
         /\ UNCHANGED status
    ELSE /\ status' = "aborted"
         /\ tcall' = [NoTupleCall EXCEPT !.op = "shlText", !.arg = TextVal(str),
                                         !.accepted = FALSE]
         /\ UNCHANGED <<array, pos, symtab>>

\* tuple::operator<<(RamDomain)
shlNumber(number) ==
    IF pos < tupleSize /\ (getAttrType(pos) = "i" \/ getAttrType(pos) = "r")
    THEN /\ array' = [array EXCEPT ![pos + 1] = number]
         /\ pos' = pos + 1
         /\ tcall' = [NoTupleCall EXCEPT !.op = "shlNumber", !.arg = NumVal(number)]
         /\ UNCHANGED <<status, symtab>>
    ELSE /\ status' = "aborted"
         /\ tcall' = [NoTupleCall EXCEPT !.op = "shlNumber", !.arg = NumVal(number),
                                         !.accepted = FALSE]
         /\ UNCHANGED <<array, pos, symtab>>

\* tuple::operator>>(std::string&). The stored id is resolved by the symbol
\* table; an id the table does not hold is the table's failure, not the
\* tuple's.
shrText ==
    IF pos < tupleSize /\ getAttrType(pos) = "s"
    THEN /\ pos' = pos + 1
         /\ IF KnownId(symtab, array[pos + 1])
            THEN /\ tcall' = [NoTupleCall EXCEPT !.op = "shrText",
                                 !.result = TextVal(resolve(symtab, array[pos + 1]))]
                 /\ UNCHANGED status
            ELSE /\ tcall' = [NoTupleCall EXCEPT !.op = "shrText"]
                 /\ status' = "symbolError"
         /\ UNCHANGED <<array, symtab>>
    ELSE /\ status' = "aborted"
         /\ tcall' = [NoTupleCall EXCEPT !.op = "shrText", !.accepted = FALSE]
         /\ UNCHANGED <<array, pos, symtab>>

\* tuple::operator>>(RamDomain&)
shrNumber ==
    IF pos < tupleSize /\ (getAttrType(pos) = "i" \/ getAttrType(pos) = "r")
    THEN /\ pos' = pos + 1
         /\ tcall' = [NoTupleCall EXCEPT !.op = "shrNumber",
                                         !.result = NumVal(array[pos + 1])]
         /\ UNCHANGED <<status, array, symtab>>
    ELSE /\ status' = "aborted"
         /\ tcall' = [NoTupleCall EXCEPT !.op = "shrNumber", !.accepted = FALSE]
         /\ UNCHANGED <<array, pos, symtab>>

\* A rewind that also clears the values.
rewindClear ==
    /\ pos' = 0
    /\ array' = [k \in 1..Len(array) |-> 0]
    /\ tcall' = [NoTupleCall EXCEPT !.op = "rewind"]
    /\ UNCHANGED <<status, symtab>>

\* tuple::rewind
rewind ==
    /\ pos' = 0
    /\ tcall' = [NoTupleCall EXCEPT !.op = "rewind"]
    /\ UNCHANGED <<status, array, symtab>>

\* tuple::operator[](size_t idx) const, for an index of the vector: the
\* element is read
subscriptGet(idx) ==
    /\ idx < tupleSize
    /\ tcall' = [NoTupleCall EXCEPT !.op = "get", !.arg = NumVal(idx),
                                    !.result = NumVal(array[idx + 1])]
    /\ UNCHANGED <<status, array, pos, symtab>>

\* tuple::operator[](size_t idx), for an index of the vector: the element is
\* assigned through the returned reference
subscriptSet(idx, number) ==
    /\ idx < tupleSize
    /\ array' = [array EXCEPT ![idx + 1] = number]
    /\ tcall' = [NoTupleCall EXCEPT !.op = "set", !.arg = NumVal(idx),
                                    !.result = NumVal(number)]
    /\ UNCHANGED <<status, pos, symtab>>

\* tuple::tuple(const tuple& t), the caller going on with the copy:
\* relation(t.relation), array(t.array), pos(t.pos)
tupleCopy ==
    /\ array' = array
    /\ pos' = pos
    /\ ctor' = "copy"
    /\ tcall' = [NoTupleCall EXCEPT !.op = "copy"]
    /\ UNCHANGED <<status, symtab>>

\* The initializer list constructor without its assertion.
tupleInitListUnchecked(il) ==
    /\ array' = il
    /\ pos' = Len(il)
    /\ ctor' = "initList"
    /\ tcall' = [NoTupleCall EXCEPT !.op = "initList"]
    /\ UNCHANGED <<status, symtab>>

\* tuple::tuple(Relation* r, std::initializer_list<RamDomain> il), on the
\* relation of the tuple at hand: array(il), pos(il.size()), then the
\* assertion on il.size()
tupleInitList(il) ==
    /\ array' = il
    /\ pos' = Len(il)
    /\ ctor' = "initList"
    /\ IF Len(il) = getArity
       THEN /\ tcall' = [NoTupleCall EXCEPT !.op = "initList"]
            /\ UNCHANGED status
       ELSE /\ tcall' = [NoTupleCall EXCEPT !.op = "initList", !.accepted = FALSE]
            /\ status' = "aborted"
    /\ UNCHANGED symtab

\* A constructor call; the program registry and the round trip are left
\* alone.
TupleCtor(call) ==
    /\ status = "running"
    /\ call
    /\ UNCHANGED <<progVars, adVars, sigVars, iterVars, scanVars, factVars, relation, input, rlog, phase>>

\* A call on the tuple.
Tuple(call) == TupleCtor(call) /\ UNCHANGED ctor

\* The initializer lists a caller passes.
InitLists == UNION {[1..n -> Numbers] : n \in 0..MaxArity}

\* Any sequence of typed writes, typed reads and rewinds on one tuple.
NextTuple ==
    \/ \E str \in Texts : Tuple(shlText(str))
    \/ \E number \in Numbers : Tuple(shlNumber(number))
    \/ Tuple(shrText)
    \/ Tuple(shrNumber)
    \/ Tuple(rewind)
    \/ \E idx \in 0..(MaxArity - 1) : Tuple(subscriptGet(idx))
    \/ \E idx \in 0..(MaxArity - 1), number \in Numbers :
          Tuple(subscriptSet(idx, number))
    \/ TupleCtor(tupleCopy)
    \/ \E il \in InitLists : TupleCtor(tupleInitList(il))

\* The caller of the round trip: a value for every column, a text for a
\* symbol column and a number for a numeric column.
MatchingInputs(schema) ==
    {vs \in [1..Len(schema) ->
                 {TextVal(str) : str \in Texts} \cup {NumVal(n) : n \in Numbers}] :
        \A k \in 1..Len(schema) : IsText(vs[k]) <=> (schema[k] = "s")}

NoRoundTrip ==
    /\ input = <<>>
    /\ rlog = <<>>
    /\ phase = "none"

InitRoundTrip ==
    /\ InitTuple
    /\ input \in MatchingInputs(relation)
    /\ rlog = <<>>
    /\ phase = "write"

\* t << input[pos], for each column in order
RoundTripWrite ==
    /\ status = "running"
    /\ phase = "write"
    /\ pos < getArity
    /\ IF IsText(input[pos + 1]) THEN shlText(input[pos + 1].text)
                                  ELSE shlNumber(input[pos + 1].num)
    /\ UNCHANGED <<progVars, adVars, sigVars, iterVars, scanVars, factVars, relation, ctor, input, rlog, phase>>

\* t.rewind() once every column is written
RoundTripRewind ==
    /\ status = "running"
    /\ phase = "write"
    /\ pos = getArity
    /\ rewind
    /\ phase' = "read"
    /\ UNCHANGED <<progVars, adVars, sigVars, iterVars, scanVars, factVars, relation, ctor, input, rlog>>

\* t >> x, for each column in order
RoundTripRead ==
    /\ status = "running"
    /\ phase = "read"
    /\ pos < getArity
    /\ IF getAttrType(pos) = "s" THEN shrText ELSE shrNumber
    /\ rlog' = Append(rlog, tcall'.result)
    /\ UNCHANGED <<progVars, adVars, sigVars, iterVars, scanVars, factVars, relation, ctor, input, phase>>

NextRoundTrip ==
    \/ RoundTripWrite
    \/ RoundTripRewind
    \/ RoundTripRead

\* ---- C4

\* C4 as stated: for every tuple and every sequence of arity values whose
\* kinds match the column types (a text for a symbol column, a number for a
\* numeric column), writing them from cursor 0, rewinding and reading arity
\* values succeeds and yields the values written, column by column.
C4_RoundTrip ==
    /\ status = "running"
    /\ \A k \in 1..Len(rlog) : rlog[k] = input[k]

\* The round trip restricted to what the typed operators accept: whenever the
\* reads have run, they returned the values written.
C4_RoundTripWhenAccepted ==
    (phase = "read" /\ status = "running") =>
        \A k \in 1..Len(rlog) : rlog[k] = input[k]

\* A completed round trip over a symbol column and a numeric column, with a
\* symbol that the table did not hold before.
C4_RoundTripReached ==
    /\ phase = "read"
    /\ Len(rlog) = getArity
    /\ getArity = MaxArity
    /\ \E k \in 1..getArity : IsText(rlog[k]) /\ lookup(symtab, rlog[k].text) > 0
    /\ \E k \in 1..getArity : ~IsText(rlog[k])

\* ---- C5

\* The column under the cursor has a numeric kind.
AtNumeric == pos < getArity /\ getAttrType(pos) \in NumericKinds
AtSymbol == pos < getArity /\ getAttrType(pos) = "s"

\* C5: a write of a text when the column under the cursor is numeric, a
\* write of a number when it is a symbol column, and any write when the
\* cursor equals the arity, fails at that point: the process is aborted, no
\* value is stored, the symbol table is not touched and the cursor does not
\* move.
C5_WriteViolation ==
    [][(\/ tcall'.op = "shlText" /\ (AtNumeric \/ pos = getArity)
        \/ tcall'.op = "shlNumber" /\ (AtSymbol \/ pos = getArity))
       => /\ status' = "aborted"
          /\ ~tcall'.accepted
          /\ UNCHANGED <<array, pos, symtab>>]_vars

\* A text written to a numeric column after a first value was stored.
C5_Witness ==
    /\ status = "aborted"
    /\ tcall.op = "shlText"
    /\ pos > 0
    /\ AtNumeric
    /\ array[1] # 0

\* ---- C6

\* The kind of value a typed operator carries matches the kind of column k.
KindMatches(op, k) ==
    IF op \in {"shlText", "shrText"} THEN k = "s" ELSE k \in NumericKinds

TypedOps == {"shlText", "shlNumber", "shrText", "shrNumber"}

\* C6 as stated: with the cursor at a column p < arity, a typed numeric write
\* or read is accepted for every numeric kind (signed, unsigned, record) and
\* a typed text write or read is accepted exactly when column p is a symbol
\* column; a typed operation is rejected only when the cursor has reached the
\* arity or the value kind does not match the column's kind.
C6_Accepted ==
    [][tcall'.op \in TypedOps =>
          (tcall'.accepted <=>
              (pos < getArity /\ KindMatches(tcall'.op, getAttrType(pos))))]_vars

\* What the assertions accept: a number only at a column tagged 'i' or 'r'.
C6_AcceptedSignedOrRecord ==
    [][tcall'.op \in TypedOps =>
          (tcall'.accepted <=>
              /\ pos < getArity
              /\ IF tcall'.op \in {"shlText", "shrText"}
                 THEN getAttrType(pos) = "s"
                 ELSE getAttrType(pos) \in {"i", "r"})]_vars

\* ---- C14

\* C14: in every tuple state, rewind() sets the cursor to 0 and leaves every
\* stored column value and the bound relation (and its symbol table)
\* unchanged.
C14_Rewind ==
    [][tcall'.op = "rewind" =>
          /\ pos' = 0
          /\ UNCHANGED <<array, relation, symtab, status>>]_vars

\* A rewind of a tuple whose columns are all written, with the cursor at the
\* arity before the rewind.
C14_Witness ==
    /\ tcall.op = "rewind"
    /\ pos = 0
    /\ getArity = MaxArity
    /\ \A k \in 1..getArity : array[k] # 0
    /\ ctor = "relation"

\* ---- C15

\* C15: for every tuple, constructed from a relation, by copy or from an
\* initializer list, and after any sequence of typed writes, typed reads,
\* rewinds and direct indexed accesses: the number of stored values equals
\* the arity of the bound relation and the cursor lies in [0, arity]; each
\* successful typed write or read advances the cursor by exactly one, and a
\* direct indexed access never changes the cursor.
C15_TupleInvariant ==
    /\ [](status # "aborted" =>
             /\ tupleSize = getArity
             /\ pos \in 0..getArity)
    /\ [][/\ (tcall'.op \in TypedOps /\ tcall'.accepted) => pos' = pos + 1
          /\ tcall'.op \in {"get", "set"} => pos' = pos
          /\ tcall'.op = "copy" => (pos' = pos /\ array' = array)]_vars

\* A tuple made from an initializer list of the most columns, rewound, and
\* then changed through operator[] with the cursor in the middle.
C15_Witness ==
    /\ ctor = "initList"
    /\ status = "running"
    /\ getArity = MaxArity
    /\ tcall.op = "set"
    /\ pos = 1
    /\ array[tcall.arg.num + 1] = tcall.result.num

(***************************************************************************)
(*          SouffleProgram::insert / contains for a std::tuple             *)
(*                                                                         *)
(* A wrapper builds a local tuple t1 on the relation, writes the elements  *)
(* of the std::tuple into it with the typed << operators, and hands t1 to  *)
(* Relation::insert or Relation::contains. array and pos show t1 as the    *)
(* last wrapper left it.                                                   *)
(***************************************************************************)

\* Bound of the wrapper model: the rows stored through insert().
MaxInserted == 2

\* The relations the wrappers are called on: tuple_insert<Tuple, N> exists
\* for N >= 1 only.
WrapperSchemas == {schema \in Schemas : Len(schema) >= 1}

NoWrapperCall == [op |-> "none", row |-> <<>>, result |-> FALSE]

\* tuple t1(relation);
newTuple == [array |-> [k \in 1..getArity |-> 0], pos |-> 0,
             symtab |-> symtab, ok |-> TRUE]

\* t1 << v: operator<<(const std::string&) for a text element and
\* operator<<(RamDomain) for a number; ok is false once an assertion failed.
put(t1, v) ==
    IF ~t1.ok THEN t1
    ELSE IF IsText(v)
    THEN IF t1.pos < Len(t1.array) /\ getAttrType(t1.pos) = "s"
         THEN [array |-> [t1.array EXCEPT ![t1.pos + 1] = lookup(t1.symtab, v.text)],
               pos |-> t1.pos + 1,
               symtab |-> intern(t1.symtab, v.text),
               ok |-> TRUE]
         ELSE [t1 EXCEPT !.ok = FALSE]
    ELSE IF /\ t1.pos < Len(t1.array)
            /\ (getAttrType(t1.pos) = "i" \/ getAttrType(t1.pos) = "r")
         THEN [array |-> [t1.array EXCEPT ![t1.pos + 1] = v.num],
               pos |-> t1.pos + 1,
               symtab |-> t1.symtab,
               ok |-> TRUE]
         ELSE [t1 EXCEPT !.ok = FALSE]

\* tuple_insert<Tuple, N>::add(t, t1): the first N - 1 elements, then
\* t1 << std::get<N - 1>(t)
RECURSIVE tuple_insert(_, _, _)
tuple_insert(t, N, t1) ==
    IF N = 1 THEN put(t1, t[1])
    ELSE put(tuple_insert(t, N - 1, t1), t[N])

InitWrapper ==
    /\ relation \in WrapperSchemas
    /\ symtab \in SymTabs
    /\ array = [k \in 1..Len(relation) |-> 0]
    /\ pos = 0
    /\ tcall = NoTupleCall
    /\ ctor = "relation"
    /\ NoRoundTrip
    /\ relRows = {}
    /\ inserted = {}
    /\ acall = NoWrapperCall

\* SouffleProgram::insert(const std::tuple<Args...>& t, Relation* relation);
\* Relation::insert stores the tuple
insert(t) ==
    LET t1 == tuple_insert(t, Len(t), newTuple)
    IN  /\ Cardinality(inserted \cup {t}) <= MaxInserted
        /\ array' = t1.array
        /\ pos' = t1.pos
        /\ symtab' = t1.symtab
        /\ acall' = [op |-> "insert", row |-> t, result |-> t1.ok]
        /\ IF t1.ok
           THEN /\ relRows' = relRows \cup {t1.array}
                /\ inserted' = inserted \cup {t}
                /\ UNCHANGED status
           ELSE /\ status' = "aborted"
                /\ UNCHANGED <<relRows, inserted>>

\* SouffleProgram::contains(const std::tuple<Args...>& t, Relation* relation);
\* Relation::contains is an exact match on every column
contains(t) ==
    LET t1 == tuple_insert(t, Len(t), newTuple)
    IN  /\ array' = t1.array
        /\ pos' = t1.pos
        /\ symtab' = t1.symtab
        /\ UNCHANGED <<relRows, inserted>>
        /\ IF t1.ok
           THEN /\ acall' = [op |-> "contains", row |-> t,
                             result |-> t1.array \in relRows]
                /\ UNCHANGED status
           ELSE /\ acall' = [op |-> "contains", row |-> t, result |-> FALSE]
                /\ status' = "aborted"

\* A call of a wrapper of the program.
Wrapper(call) ==
    /\ status = "running"
    /\ call
    /\ UNCHANGED <<progVars, sigVars, iterVars, scanVars, factVars,
                   relation, tcall, ctor, input, rlog, phase>>

NextWrapper ==
    \/ \E t \in MatchingInputs(relation) : Wrapper(insert(t))
    \/ \E t \in MatchingInputs(relation) : Wrapper(contains(t))

\* ---- C16

\* The tuple a row is stored as: a number as it is, a text as its id in the
\* symbol table.
Stored(t) ==
    [k \in 1..Len(t) |-> IF IsText(t[k]) THEN lookup(symtab, t[k].text)
                         ELSE t[k].num]

\* Every call was accepted, the relation holds the inserted rows column by
\* column, and contains() answers by membership in the inserted rows.
WrappersAgree ==
    /\ status = "running"
    /\ \A t \in inserted : \A k \in 1..Len(t) :
           IsText(t[k]) => HasSymbol(symtab, t[k].text)
    /\ relRows = {Stored(t) : t \in inserted}
    /\ acall.op = "contains" => (acall.result <=> acall.row \in inserted)
    /\ acall.op = "insert" => (acall.result /\ acall.row \in inserted)

\* C16 as stated: for any rows inserted through insert(row, relation) into a
\* relation with symbol and/or numeric columns, element i of the row is
\* written into column i (a symbol as its id), and afterwards
\* contains(row, relation) is true for every inserted row and false for every
\* row that differs from all inserted rows in some column.
C16_Wrappers == WrappersAgree

\* The same for the relations whose numeric columns are tagged 'i' or 'r'.
C16_WrappersSignedOrRecord ==
    (\A k \in 1..getArity : relation[k] # "u") => WrappersAgree

\* contains() answered false for a row that shares its first column with an
\* inserted row, with the most rows inserted in a relation of a symbol
\* column and a numeric column.
C16_WrappersReached ==
    /\ acall.op = "contains"
    /\ ~acall.result
    /\ Cardinality(inserted) = MaxInserted
    /\ \E t \in inserted : t[1] = acall.row[1]
    /\ \E k \in 1..getArity : relation[k] = "s"
    /\ \E k \in 1..getArity : relation[k] \in {"i", "r"}
    /\ status = "running"

(***************************************************************************)
(*                            Relation::iterator                           *)
(***************************************************************************)

\* Bounds of the iterator model: the rows of the relation the handles are
\* on, and the rows of the relation the scan loop runs over.
MaxIterRows == 2
MaxScanRows == 3

\* The handle variables of the caller, and an address for the iterator_base
\* of each.
Handles == {"it", "end", "tmp"}
Addrs == 1..Cardinality(Handles)

\* The id of the relation's concrete iterator class, and an id that no
\* iterator of the relation has.
IterId == "rel_iterator"
OtherId == "other_iterator"

\* The scan orders of the relations to iterate: the rows are distinct.
ScanOrders ==
    {rs \in UNION {[1..n -> 1..MaxScanRows] : n \in 0..MaxScanRows} :
        \A j, k \in 1..Len(rs) : j # k => rs[j] # rs[k]}

\* An iterator_base object: idx rows of the scan are behind the cursor.
Freed == [live |-> FALSE, id |-> IterId, idx |-> 0]
Cursor(id, idx) == [live |-> TRUE, id |-> id, idx |-> idx]

NoIterCall == [op |-> "none", a |-> "it", b |-> "it", row |-> 0]

\* The concrete iterator of the relation (iterator_base's pure virtuals).
AtEnd(c) == c.idx >= Len(itRows)
equal(c, d) == c.idx = d.idx
clone(c) == Cursor(c.id, c.idx)
increment(c) == [c EXCEPT !.idx = @ + 1]

\* new: the lowest free address
FreeAddrs(h) == {a \in Addrs : ~h[a].live}
NewAddr(h) == CHOOSE a \in FreeAddrs(h) : \A b \in FreeAddrs(h) : a <= b

\* The iterator_base a handle owns.
Cur(h) == heap[iter[h]]

\* The logical position a handle denotes: a row of the relation, or the end.
Position(h) ==
    IF AtEnd(Cur(h)) THEN [atEnd |-> TRUE, row |-> 0]
    ELSE [atEnd |-> FALSE, row |-> itRows[Cur(h).idx + 1]]

\* An == that ignores the position: the ids alone.
baseEqIdOnly(c, d) == c.id = d.id

\* iterator_base::operator==
baseEq(c, d) == c.id = d.id /\ equal(c, d)

\* iterator::operator==
HandleEq(a, b) == (iter[a] = iter[b]) \/ baseEq(Cur(a), Cur(b))

\* An != that compares the cursor pointers alone.
HandleNeqPointers(a, b) == iter[a] # iter[b]

\* iterator::operator!=
HandleNeq(a, b) == ~HandleEq(a, b)

InitIter ==
    /\ heap = [a \in Addrs |-> Freed]
    /\ iter = [h \in Handles |-> 0]
    /\ alive = {}
    /\ uaf = FALSE
    /\ icall = NoIterCall

\* iterator(iterator_base* arg) : iter(arg), on a cursor allocated with cursor
\* state c
Construct(h, c) ==
    /\ h \notin alive
    /\ FreeAddrs(heap) # {}
    /\ heap' = [heap EXCEPT ![NewAddr(heap)] = c]
    /\ iter' = [iter EXCEPT ![h] = NewAddr(heap)]
    /\ alive' = alive \cup {h}
    /\ UNCHANGED <<itRows, uaf>>

\* h = relation.begin()
Begin(h) ==
    /\ Construct(h, Cursor(IterId, 0))
    /\ icall' = [NoIterCall EXCEPT !.op = "begin", !.a = h]

\* h = relation.end()
End(h) ==
    /\ Construct(h, Cursor(IterId, Len(itRows)))
    /\ icall' = [NoIterCall EXCEPT !.op = "end", !.a = h]

\* A copy constructor that copies the pointer: iter(o.iter).
CopyShallow(h, o) ==
    /\ h \notin alive
    /\ o \in alive
    /\ iter' = [iter EXCEPT ![h] = iter[o]]
    /\ alive' = alive \cup {h}
    /\ icall' = [NoIterCall EXCEPT !.op = "copy", !.a = h, !.b = o]
    /\ UNCHANGED <<itRows, heap, uaf>>

\* iterator(const iterator& o) : iter(o.iter->clone())
Copy(h, o) ==
    /\ o \in alive
    /\ Construct(h, clone(Cur(o)))
    /\ icall' = [NoIterCall EXCEPT !.op = "copy", !.a = h, !.b = o]

\* iterator::operator=(const iterator& o), h = o for two handles:
\* delete iter; iter = o.iter->clone();
Assign(h, o) ==
    /\ h \in alive
    /\ o \in alive
    /\ h # o
    /\ LET freed == [heap EXCEPT ![iter[h]] = Freed]
       IN  /\ heap' = [freed EXCEPT ![NewAddr(freed)] = clone(Cur(o))]
           /\ iter' = [iter EXCEPT ![h] = NewAddr(freed)]
    /\ icall' = [NoIterCall EXCEPT !.op = "assign", !.a = h, !.b = o]
    /\ UNCHANGED <<itRows, alive, uaf>>

\* iterator::operator=(const iterator& o), h = h: o.iter is deleted before
\* it is cloned. The clone of a deleted object is any cursor, or none (the
\* process crashes).
AssignSelf(h) ==
    /\ h \in alive
    /\ uaf' = TRUE
    /\ icall' = [NoIterCall EXCEPT !.op = "assign", !.a = h, !.b = h]
    /\ LET freed == [heap EXCEPT ![iter[h]] = Freed]
       IN  \/ /\ \E id \in {IterId, OtherId}, idx \in 0..Len(itRows) :
                     heap' = [freed EXCEPT ![NewAddr(freed)] = Cursor(id, idx)]
              /\ iter' = [iter EXCEPT ![h] = NewAddr(freed)]
              /\ UNCHANGED <<alive, status>>
           \/ /\ status' = "crashed"
              /\ heap' = freed
              /\ iter' = [iter EXCEPT ![h] = 0]
              /\ alive' = alive \ {h}
    /\ UNCHANGED itRows

\* iterator::operator++ on a handle positioned at a row: ++(*iter)
Advance(h) ==
    /\ h \in alive
    /\ ~AtEnd(Cur(h))
    /\ heap' = [heap EXCEPT ![iter[h]] = increment(@)]
    /\ icall' = [NoIterCall EXCEPT !.op = "advance", !.a = h]
    /\ UNCHANGED <<itRows, iter, alive, uaf>>

\* iterator::operator*: *(*iter). The row under the cursor; no row at the
\* end.
Deref(h) ==
    /\ h \in alive
    /\ icall' = [NoIterCall EXCEPT !.op = "deref", !.a = h,
                                   !.row = Position(h).row]
    /\ UNCHANGED <<itRows, heap, iter, alive, uaf>>

\* iterator::~iterator: delete iter
Destroy(h) ==
    /\ h \in alive
    /\ heap' = [heap EXCEPT ![iter[h]] = Freed]
    /\ iter' = [iter EXCEPT ![h] = 0]
    /\ alive' = alive \ {h}
    /\ icall' = [NoIterCall EXCEPT !.op = "destroy", !.a = h]
    /\ UNCHANGED <<itRows, uaf>>

\* A call on an iterator handle by a caller that holds several handles on an
\* unchanging relation.
Iter(call) ==
    /\ status = "running"
    /\ call
    /\ UNCHANGED <<progVars, tupVars, adVars, sigVars, scanVars, factVars>>

IterKeep(call) == Iter(call) /\ UNCHANGED status

NextIter ==
    \/ \E h \in Handles : IterKeep(Begin(h))
    \/ \E h \in Handles : IterKeep(End(h))
    \/ \E h, o \in Handles : IterKeep(Copy(h, o))
    \/ \E h, o \in Handles : IterKeep(Assign(h, o))
    \/ \E h \in Handles : Iter(AssignSelf(h))
    \/ \E h \in Handles : IterKeep(Advance(h))
    \/ \E h \in Handles : IterKeep(Deref(h))
    \/ \E h \in Handles : IterKeep(Destroy(h))

\* ---- C7

\* C7: two handles on the same relation, obtained by begin(), end(), copies
\* and advances, compare equal with iterator::operator== (same cursor object
\* OR equal cursors) iff their cursors have the same kind and denote the same
\* logical position, two cursors at the end denoting the same position.
C7_Equality ==
    \A a, b \in alive :
        HandleEq(a, b) <=> (Cur(a).id = Cur(b).id /\ Position(a) = Position(b))

\* Two handles with their own cursors that compare equal at a row reached by
\* an advance, and a third that compares unequal to both.
C7_Witness ==
    \E a, b, c \in alive :
        /\ iter[a] # iter[b]
        /\ HandleEq(a, b)
        /\ ~AtEnd(Cur(a))
        /\ Cur(a).idx > 0
        /\ ~HandleEq(a, c)
        /\ ~uaf

\* ---- C9

\* C9: a handle made by copy construction or by assignment from another
\* handle gets a cursor of its own and compares equal to its source right
\* after the copy; an advance of one handle leaves the position of every
\* other handle unchanged.
C9_NoAlias ==
    [][\A a, b \in Handles :
          (icall'.a = a /\ icall'.b = b) =>
             /\ (icall'.op \in {"copy", "assign"} /\ status' = "running") =>
                   /\ HandleEq(a, b)'
                   /\ a # b => iter'[a] # iter'[b]
             /\ icall'.op = "advance" =>
                   \A g \in alive \ {a} :
                       /\ g \in alive'
                       /\ Position(g)' = Position(g)]_vars

\* An advance of a handle that left another handle one row behind.
C9_Witness ==
    /\ icall.op = "advance"
    /\ \E g \in alive \ {icall.a} :
          /\ Cur(g).idx + 1 = Cur(icall.a).idx
          /\ Cur(g).id = Cur(icall.a).id
    /\ ~uaf

\* ---- C17

\* Every live handle owns one cursor that is not released, and no cursor is
\* owned by two handles.
OwnsOne ==
    /\ \A h \in alive : iter[h] \in Addrs /\ heap[iter[h]].live
    /\ \A a, b \in alive : a # b => iter[a] # iter[b]

\* C17 as stated: after any sequence of handle operations (begin(), end(),
\* copy construction, assignment a = b and a = a, advance, destruction),
\* every live handle owns exactly one cursor that is not released, no cursor
\* is owned by two handles, and no operation has read or cloned a released
\* cursor.
C17_Ownership == OwnsOne /\ ~uaf

\* The same without the self-assignment: the handles own their cursors, and
\* a released cursor is used by no operation but a = a.
C17_OwnershipButSelfAssign ==
    /\ [](OwnsOne)
    /\ [][(uaf' # uaf) =>
             (icall'.op = "assign" /\ icall'.a = icall'.b)]_vars

\* An assignment a = b that released the old cursor of a, with three live
\* handles and no self-assignment so far.
C17_OwnershipReached ==
    /\ icall.op = "assign"
    /\ icall.a # icall.b
    /\ alive = Handles
    /\ ~uaf

(***************************************************************************)
(*                              The scan loop                              *)
(*                                                                         *)
(*   it = R.begin(); while (it != R.end()) { *it; ++it; }                  *)
(*                                                                         *)
(* R.end() is a temporary of the loop condition: it is constructed,        *)
(* compared and destroyed each time round.                                 *)
(***************************************************************************)

InitScan ==
    /\ pc = "begin"
    /\ visited = <<>>
    /\ derefAtEnd = FALSE

\* A step of the loop; the relation is not changed during the scan.
Scan(call, next) ==
    /\ status = "running"
    /\ call
    /\ pc' = next
    /\ UNCHANGED <<status, progVars, tupVars, adVars, sigVars, factVars>>

\* it = R.begin()
ScanBegin ==
    /\ pc = "begin"
    /\ Scan(Begin("it"), "end")
    /\ UNCHANGED <<visited, derefAtEnd>>

\* R.end()
ScanEnd ==
    /\ pc = "end"
    /\ Scan(End("tmp"), "test")
    /\ UNCHANGED <<visited, derefAtEnd>>

\* it != R.end(), and the temporary's destructor
ScanTest ==
    /\ pc = "test"
    /\ Scan(Destroy("tmp"), IF HandleNeq("it", "tmp") THEN "deref" ELSE "done")
    /\ UNCHANGED <<visited, derefAtEnd>>

\* *it
ScanDeref ==
    /\ pc = "deref"
    /\ Scan(Deref("it"), "advance")
    /\ visited' = Append(visited, icall'.row)
    /\ derefAtEnd' = (derefAtEnd \/ AtEnd(Cur("it")))

\* ++it
ScanAdvance ==
    /\ pc = "advance"
    /\ Scan(Advance("it"), "end")
    /\ UNCHANGED <<visited, derefAtEnd>>

NextScan ==
    \/ ScanBegin
    \/ ScanEnd
    \/ ScanTest
    \/ ScanDeref
    \/ ScanAdvance

\* ---- C8

\* C8: the scan loop over a relation that is not changed during the scan
\* terminates; it never dereferences a handle at the end; when it is done it
\* has dereferenced exactly size() times and visited every row once, in the
\* relation's scan order.
C8_Scan ==
    /\ <>(pc = "done")
    /\ [](~derefAtEnd)
    /\ [](Len(visited) <= Len(itRows))
    /\ [](pc = "done" => visited = itRows)

\* A finished scan of a relation with the most rows.
C8_Witness ==
    /\ pc = "done"
    /\ Len(itRows) = MaxScanRows
    /\ Len(visited) = MaxScanRows
    /\ itRows[1] > itRows[2]

(***************************************************************************)
(*                              ProgramFactory                             *)
(***************************************************************************)

\* The factory objects of the process and the names they may be given.
Factories == {"factory_1", "factory_2", "factory_3"}
FactoryNames == {"prog_a", "prog_b", "prog_c"}

NoFactoryCall == [op |-> "none", factory |-> NULL, name |-> NULL, result |-> NULL]

\* Before any static initializer has run: the map of getFactoryRegistry is
\* not constructed yet.
InitFactory ==
    /\ factoryReg = [n \in {} |-> NULL]
    /\ regInit = FALSE
    /\ uninitRead = FALSE
    /\ constructed = <<>>
    /\ fcall = NoFactoryCall

\* A registry that is a namespace-scope object: a call returns it as it is,
\* whether or not its own initializer has run yet.
getFactoryRegistryGlobal ==
    /\ regInit' = regInit
    /\ uninitRead' = (uninitRead \/ ~regInit)

\* ProgramFactory::getFactoryRegistry: the first call that reaches the
\* declaration of the static map constructs it; every call returns the
\* constructed map.
getFactoryRegistry ==
    /\ regInit' = TRUE
    /\ UNCHANGED uninitRead

\* getFactoryRegistry()[name]: the entry of name, created null when absent
Entry(name) == IF name \in DOMAIN factoryReg THEN factoryReg[name] ELSE NULL

\* A registration without the assertion: the entry is overwritten.
registerFactoryUnchecked(factory, name) ==
    /\ getFactoryRegistry
    /\ factoryReg' = MapPut(factoryReg, name, factory)
    /\ UNCHANGED status

\* ProgramFactory::registerFactory, for a factory of the given name
registerFactory(factory, name) ==
    /\ getFactoryRegistry
    /\ IF Entry(name) = NULL
       THEN /\ factoryReg' = MapPut(factoryReg, name, factory)
            /\ UNCHANGED status
       ELSE /\ status' = "aborted"
            /\ UNCHANGED factoryReg

\* ProgramFactory::ProgramFactory(std::string name)
ProgramFactory(factory, name) ==
    /\ \A k \in 1..Len(constructed) : constructed[k].factory # factory
    /\ registerFactory(factory, name)
    /\ constructed' = Append(constructed, [factory |-> factory, name |-> name])
    /\ fcall' = [NoFactoryCall EXCEPT !.op = "ProgramFactory",
                                      !.factory = factory, !.name = name]

\* ProgramFactory::find
find(factoryName) ==
    IF factoryName \in DOMAIN factoryReg THEN factoryReg[factoryName] ELSE NULL

\* A newInstance that looks the name up with operator[]: an unknown name gets
\* a null entry.
newInstanceSubscript(name) ==
    /\ getFactoryRegistry
    /\ fcall' = [NoFactoryCall EXCEPT !.op = "newInstance", !.name = name,
                                      !.result = Entry(name)]
    /\ factoryReg' = IF name \in DOMAIN factoryReg THEN factoryReg
                     ELSE MapPut(factoryReg, name, NULL)
    /\ UNCHANGED <<status, constructed>>

\* ProgramFactory::newInstance(const std::string&): the factory whose
\* newInstance() builds the program, or null
newInstance(name) ==
    /\ getFactoryRegistry
    /\ fcall' = [NoFactoryCall EXCEPT !.op = "newInstance", !.name = name,
                                      !.result = find(name)]
    /\ UNCHANGED <<status, factoryReg, constructed>>

\* A call on the factory registry.
Factory(call) ==
    /\ status = "running"
    /\ call
    /\ UNCHANGED <<progVars, tupVars, adVars, sigVars, iterVars, scanVars>>

NextFactory ==
    \/ \E factory \in Factories, name \in FactoryNames :
          Factory(ProgramFactory(factory, name))
    \/ \E name \in FactoryNames : Factory(newInstance(name))

\* ---- C10

\* The first factory constructed under a name.
FirstConstructed(cs, name) ==
    LET ks == {k \in 1..Len(cs) : cs[k].name = name}
    IN  cs[CHOOSE k \in ks : \A j \in ks : k <= j].factory

\* C10: the construction of a factory under a name that is already
\* registered aborts the process at registration and leaves the directory
\* as it was; no entry of the directory is ever overwritten or removed, so a
\* name always maps to the first factory constructed under it.
C10_DuplicateFactory ==
    [][/\ (fcall'.op = "ProgramFactory" /\ Entry(fcall'.name) # NULL) =>
             /\ status' = "aborted"
             /\ factoryReg' = factoryReg
       /\ \A n \in DOMAIN factoryReg :
             factoryReg[n] # NULL =>
                 n \in DOMAIN factoryReg' /\ factoryReg'[n] = factoryReg[n]
       /\ \A n \in DOMAIN factoryReg' :
             factoryReg'[n] = FirstConstructed(constructed', n)]_vars

\* A second factory constructed under a registered name, with another name
\* registered as well.
C10_Witness ==
    /\ status = "aborted"
    /\ fcall.op = "ProgramFactory"
    /\ Entry(fcall.name) # NULL
    /\ Entry(fcall.name) # fcall.factory
    /\ Cardinality(DOMAIN factoryReg) = 2

\* ---- C11

\* The names under which a factory was constructed.
ConstructedNames(cs) == {cs[k].name : k \in 1..Len(cs)}

\* C11: newInstance(name) invokes newInstance() of exactly the factory
\* registered under name when there is one, and returns null without invoking
\* any factory when there is none; in neither case does it change the
\* directory: an unknown name gets no entry, and a later construction of a
\* factory under that name still succeeds.
C11_NewInstance ==
    [][/\ fcall'.op = "newInstance" =>
             /\ fcall'.result =
                    IF fcall'.name \in ConstructedNames(constructed)
                    THEN FirstConstructed(constructed, fcall'.name)
                    ELSE NULL
             /\ factoryReg' = factoryReg
             /\ DOMAIN factoryReg' = ConstructedNames(constructed)
             /\ UNCHANGED <<status, constructed>>
       /\ (/\ fcall'.op = "ProgramFactory"
           /\ fcall'.name \notin ConstructedNames(constructed)) =>
             /\ status' = "running"
             /\ fcall'.name \in DOMAIN factoryReg'
             /\ factoryReg'[fcall'.name] = fcall'.factory]_vars

\* A lookup of a registered name that found its factory, with another name
\* still unregistered.
C11_WitnessFound ==
    /\ fcall.op = "newInstance"
    /\ fcall.result \in Factories
    /\ factoryReg[fcall.name] = fcall.result
    /\ DOMAIN factoryReg # FactoryNames

\* A lookup of an unknown name, in a directory that holds other names, that
\* returned null and left no entry.
C11_Witness ==
    /\ fcall.op = "newInstance"
    /\ fcall.result = NULL
    /\ fcall.name \notin DOMAIN factoryReg
    /\ Cardinality(DOMAIN factoryReg) = 2

\* ---- C12

\* C12: in every order in which the static initializers construct factories
\* and call newInstance, the registry is constructed by its first use and
\* before any entry is read or written: no construction and no lookup uses a
\* registry that is not constructed, and every name a factory was
\* constructed under keeps its registration.
C12_LazyInit ==
    /\ ~uninitRead
    /\ regInit <=> (fcall.op # "none")
    /\ regInit => DOMAIN factoryReg = ConstructedNames(constructed)
    /\ \A n \in ConstructedNames(constructed) :
           /\ n \in DOMAIN factoryReg
           /\ factoryReg[n] = FirstConstructed(constructed, n)

\* Every factory of the process constructed, each found under its own name,
\* after a lookup.
C12_Witness ==
    /\ regInit
    /\ fcall.op = "newInstance"
    /\ fcall.result \in Factories
    /\ Len(constructed) = Cardinality(Factories)
    /\ \A k \in 1..Len(constructed) :
           factoryReg[constructed[k].name] = constructed[k].factory

(***************************************************************************)
(*                          Relation::getSignature                         *)
(*                                                                         *)
(* A std::string is a sequence of characters, and + is \o.                 *)
(***************************************************************************)

\* The type names of a program's .type declarations, and the attribute type
\* strings "<kind>:<type name>" that getAttrType may return.
TypeNames == {<<"N">>, <<"n", "o">>}
AttrTypes == {<<kind, ":">> \o name : kind \in AttrKinds, name \in TypeNames}

\* The relations getSignature is called on: a string for each column.
SigSchemas == UNION {[1..n -> AttrTypes] : n \in 0..MaxArity}

\* std::string(getAttrType(i)) of the relation
getAttrTypeString(i) == attrTypes[i + 1]

\* The loop of getSignature from column i on:
\* for (; i < getArity(); i++) signature += "," + std::string(getAttrType(i));
RECURSIVE signatureLoop(_, _)
signatureLoop(str, i) ==
    IF i < Len(attrTypes)
    THEN signatureLoop(str \o <<",">> \o getAttrTypeString(i), i + 1)
    ELSE str

\* A getSignature whose loop starts at column 0.
getSignatureLoopFromZero ==
    IF Len(attrTypes) = 0 THEN <<"<", ">">>
    ELSE signatureLoop(<<"<">> \o getAttrTypeString(0), 0) \o <<">">>

\* Relation::getSignature
getSignature ==
    IF Len(attrTypes) = 0 THEN <<"<", ">">>
    ELSE signatureLoop(<<"<">> \o getAttrTypeString(0), 1) \o <<">">>

InitSignature ==
    /\ attrTypes \in SigSchemas
    /\ signature = <<>>

\* std::string s = r.getSignature();
CallGetSignature ==
    /\ status = "running"
    /\ signature = <<>>
    /\ signature' = getSignature
    /\ UNCHANGED <<status, attrTypes, progVars, tupVars, adVars, iterVars, scanVars, factVars>>

NextSignature ==
    \/ CallGetSignature

\* ---- C13

\* The fields of a string of characters, split at each ','.
RECURSIVE Fields(_)
Fields(str) ==
    IF \A k \in 1..Len(str) : str[k] # ","
    THEN <<str>>
    ELSE LET c == CHOOSE k \in 1..Len(str) :
                      str[k] = "," /\ \A j \in 1..(k - 1) : str[j] # ","
         IN  <<SubSeq(str, 1, c - 1)>> \o Fields(SubSeq(str, c + 1, Len(str)))

\* C13: getSignature() is exactly "<>" for a relation of arity 0; otherwise
\* it is '<', then the attribute type strings of columns 0..arity-1 in column
\* order joined by ',', then '>': between the brackets it has exactly arity
\* comma-separated descriptors, the k-th being the type of column k.
C13_Signature ==
    signature # <<>> =>
        IF Len(attrTypes) = 0
        THEN signature = <<"<", ">">>
        ELSE /\ Len(signature) >= 2
             /\ Head(signature) = "<"
             /\ signature[Len(signature)] = ">"
             /\ Fields(SubSeq(signature, 2, Len(signature) - 1)) = attrTypes
             /\ Len(Fields(SubSeq(signature, 2, Len(signature) - 1)))
                   = Len(attrTypes)

\* The signature of a relation with the most columns, of two different
\* types.
C13_Witness ==
    /\ Len(attrTypes) = MaxArity
    /\ attrTypes[1] # attrTypes[2]
    /\ signature # <<>>
    /\ Len(signature) = 2 + Len(attrTypes[1]) + 1 + Len(attrTypes[2])

\* The signature of a relation without columns.
C13_WitnessNullary ==
    /\ Len(attrTypes) = 0
    /\ signature = <<"<", ">">>

(***************************************************************************)
(*                             Specifications                              *)
(***************************************************************************)

\* The tuple part at rest, for the specifications that do not use it.
IdleTuple ==
    /\ relation = <<>>
    /\ symtab = <<>>
    /\ array = <<>>
    /\ pos = 0
    /\ tcall = NoTupleCall
    /\ ctor = "relation"
    /\ NoRoundTrip

\* No wrapper called.
IdleWrapper ==
    /\ relRows = {}
    /\ inserted = {}
    /\ acall = NoWrapperCall

\* No signature asked for.
IdleSignature ==
    /\ attrTypes = <<>>
    /\ signature = <<>>

\* The iterator part and the scan loop at rest.
IdleIter ==
    /\ itRows = <<>>
    /\ heap = [a \in Addrs |-> Freed]
    /\ iter = [h \in Handles |-> 0]
    /\ alive = {}
    /\ uaf = FALSE
    /\ icall = NoIterCall
IdleScan ==
    /\ pc = "none"
    /\ visited = <<>>
    /\ derefAtEnd = FALSE

\* The other parts at rest, for the specification of one part.
IdleButProgram == IdleTuple /\ IdleWrapper /\ IdleSignature /\ IdleIter /\ IdleScan /\ InitFactory
IdleButTuple == InitProgram /\ IdleWrapper /\ IdleSignature /\ IdleIter /\ IdleScan /\ InitFactory
IdleButSignature == InitProgram /\ IdleTuple /\ IdleWrapper /\ IdleIter /\ IdleScan /\ InitFactory
IdleButIter == InitProgram /\ IdleTuple /\ IdleWrapper /\ IdleSignature /\ InitFactory
IdleButFactory == InitProgram /\ IdleTuple /\ IdleWrapper /\ IdleSignature /\ IdleIter /\ IdleScan

InitSpecProgram == status = "running" /\ InitProgram /\ IdleButProgram
SpecProgram == InitSpecProgram /\ [][NextProgram]_vars

InitSpecTuple ==
    status = "running" /\ IdleButTuple /\ InitTuple /\ NoRoundTrip
SpecTuple == InitSpecTuple /\ [][NextTuple]_vars

InitSpecRoundTrip == status = "running" /\ IdleButTuple /\ InitRoundTrip
SpecRoundTrip == InitSpecRoundTrip /\ [][NextRoundTrip]_vars

InitSpecIter ==
    /\ status = "running" /\ IdleButIter
    /\ itRows \in {[k \in 1..n |-> k] : n \in 0..MaxIterRows}
    /\ InitIter /\ IdleScan
SpecIter == InitSpecIter /\ [][NextIter]_vars

\* The loop is straight-line code on the caller's thread: a step that can be
\* taken is taken.
InitSpecScan ==
    /\ status = "running" /\ IdleButIter
    /\ itRows \in ScanOrders
    /\ InitIter /\ InitScan
SpecScan == InitSpecScan /\ [][NextScan]_vars /\ WF_vars(NextScan)

InitSpecWrapper ==
    /\ status = "running"
    /\ InitProgram /\ IdleSignature /\ IdleIter /\ IdleScan /\ InitFactory
    /\ InitWrapper
SpecWrapper == InitSpecWrapper /\ [][NextWrapper]_vars

InitSpecSignature == status = "running" /\ IdleButSignature /\ InitSignature
SpecSignature == InitSpecSignature /\ [][NextSignature]_vars

InitSpecFactory == status = "running" /\ IdleButFactory /\ InitFactory
SpecFactory == InitSpecFactory /\ [][NextFactory]_vars

=============================================================================
